---- MODULE Spec2Model ----
(***************************************************************************)
(* Byte-level BPE tokenizer (minbpe/basic.py, class BasicTokenizer).       *)
(* Three tokenizer objects are trained on the same text, one per training  *)
(* strategy (train, train_vectorized, train_gpu); a trained tokenizer is   *)
(* then used to encode and decode a second text.                           *)
(***************************************************************************)
EXTENDS Integers, Sequences, FiniteSets, TLC

\* ---------------------------------------------------------------- bounds
MaxLen == 3        \* longest training text, in characters
MaxEncLen == 3     \* longest text handed to encode, in characters
MaxMerges == 2     \* largest vocab_size is NumBytes + MaxMerges

\* ------------------------------------------------------ program constants
NumBytes == 256    \* number of raw byte tokens; first minted id
Replacement == 65533   \* U+FFFD, what errors="replace" substitutes

\* characters the texts are drawn from: 'a' and the two-byte U+00E9
Alphabet == {97, 233}

Strategies == {"train", "train_vectorized", "train_gpu"}

None == <<>>

\* ------------------------------------------------------ generic helpers
RECURSIVE TextsOfLen(_)
TextsOfLen(n) ==
    IF n = 0 THEN {<<>>}
    ELSE {Append(t, c) : t \in TextsOfLen(n - 1), c \in Alphabet}

Texts(maxlen) == UNION {TextsOfLen(n) : n \in 0..maxlen}

RECURSIVE Concat(_)
Concat(ss) == IF ss = <<>> THEN <<>> ELSE Head(ss) \o Concat(Tail(ss))

\* ------------------------------------------------------ str.encode("utf-8")
utf8_encode_char(cp) ==
    IF cp < 128 THEN <<cp>>
    ELSE IF cp < 2048 THEN <<192 + (cp \div 64), 128 + (cp % 64)>>
    ELSE IF cp < 65536 THEN
        <<224 + (cp \div 4096), 128 + ((cp \div 64) % 64), 128 + (cp % 64)>>
    ELSE <<240 + (cp \div 262144), 128 + ((cp \div 4096) % 64),
           128 + ((cp \div 64) % 64), 128 + (cp % 64)>>

utf8_encode(text) ==
    Concat([k \in 1..Len(text) |-> utf8_encode_char(text[k])])

\* ------------------------------- bytes.decode("utf-8", errors="replace")
IsCont(b, k, lo, hi) == k <= Len(b) /\ b[k] >= lo /\ b[k] <= hi

\* decodes one character at the head of the non-empty byte sequence b:
\* the code point and the number of bytes consumed
utf8_decode_one(b) ==
    LET b0 == b[1]
        lo2 == IF b0 = 224 THEN 160 ELSE IF b0 = 240 THEN 144 ELSE 128
        hi2 == IF b0 = 237 THEN 159 ELSE IF b0 = 244 THEN 143 ELSE 191
    IN  IF b0 < 128 THEN [cp |-> b0, n |-> 1]
        ELSE IF b0 >= 194 /\ b0 <= 223 THEN
            IF IsCont(b, 2, 128, 191)
            THEN [cp |-> (b0 - 192) * 64 + (b[2] - 128), n |-> 2]
            ELSE [cp |-> Replacement, n |-> 1]
        ELSE IF b0 >= 224 /\ b0 <= 239 THEN
            IF ~IsCont(b, 2, lo2, hi2) THEN [cp |-> Replacement, n |-> 1]
            ELSE IF ~IsCont(b, 3, 128, 191) THEN [cp |-> Replacement, n |-> 2]
            ELSE [cp |-> (b0 - 224) * 4096 + (b[2] - 128) * 64 + (b[3] - 128),
                  n |-> 3]
        ELSE IF b0 >= 240 /\ b0 <= 244 THEN
            IF ~IsCont(b, 2, lo2, hi2) THEN [cp |-> Replacement, n |-> 1]
            ELSE IF ~IsCont(b, 3, 128, 191) THEN [cp |-> Replacement, n |-> 2]
            ELSE IF ~IsCont(b, 4, 128, 191) THEN [cp |-> Replacement, n |-> 3]
            ELSE [cp |-> (b0 - 240) * 262144 + (b[2] - 128) * 4096
                         + (b[3] - 128) * 64 + (b[4] - 128),
                  n |-> 4]
        ELSE [cp |-> Replacement, n |-> 1]

RECURSIVE utf8_decode(_)
utf8_decode(b) ==
    IF b = <<>> THEN <<>>
    ELSE LET r == utf8_decode_one(b)
         IN  <<r.cp>> \o utf8_decode(SubSeq(b, r.n + 1, Len(b)))

\* ------------------------------------------------- base.get_stats / merge
\* adjacent pairs of ids, by position
AdjPairs(ids) == [j \in 1..(Len(ids) - 1) |-> <<ids[j], ids[j + 1]>>]

CountOf(ps, p) == Cardinality({j \in 1..Len(ps) : ps[j] = p})

\* the dict of pair counts, as the list of its items in insertion order
\* (a pair is inserted when the scan first meets it)
get_stats(ids) ==
    LET ps == AdjPairs(ids)
        idxs == [j \in 1..Len(ps) |-> j]
        firsts == SelectSeq(idxs, LAMBDA j : \A k \in 1..(j - 1) : ps[k] # ps[j])
    IN  [k \in 1..Len(firsts) |->
            [pair |-> ps[firsts[k]], count |-> CountOf(ps, ps[firsts[k]])]]

\* left-to-right greedy, non-overlapping replacement of pair by idx
RECURSIVE merge(_, _, _)
merge(ids, pair, idx) ==
    IF ids = <<>> THEN <<>>
    ELSE IF Len(ids) >= 2 /\ ids[1] = pair[1] /\ ids[2] = pair[2]
         THEN <<idx>> \o merge(SubSeq(ids, 3, Len(ids)), pair, idx)
         ELSE <<ids[1]>> \o merge(Tail(ids), pair, idx)

\* ------------------------------------------------------ Python builtins
\* max(stats, key=stats.get): the first item in iteration order whose
\* count is the largest
py_max_count(stats) ==
    LET best == CHOOSE k \in 1..Len(stats) :
                    /\ \A j \in 1..Len(stats) : stats[j].count <= stats[k].count
                    /\ \A j \in 1..(k - 1) : stats[j].count < stats[k].count
    IN  stats[best].pair

\* dict with d[k] = v set (a later store to the same key overwrites)
DictSet(d, k, v) == [x \in (DOMAIN d) \cup {k} |-> IF x = k THEN v ELSE d[x]]

\* ------------------------------------------------------ numpy / torch
\* numpy.unique and torch.unique (axis/dim = 0) return the rows sorted;
\* numpy.argmax and torch.argmax return the first index of the maximum.
PairLess(p, q) == p[1] < q[1] \/ (p[1] = q[1] /\ p[2] < q[2])

RECURSIVE SortedRows(_)
SortedRows(S) ==
    IF S = {} THEN <<>>
    ELSE LET m == CHOOSE p \in S : \A q \in S \ {p} : PairLess(p, q)
         IN  <<m>> \o SortedRows(S \ {m})

\* unique(pairs, return_counts=True, axis=0): the distinct rows in
\* lexicographic order, each with its number of occurrences
unique(pairs) ==
    LET rows == SortedRows({pairs[j] : j \in 1..Len(pairs)})
    IN  [k \in 1..Len(rows) |-> [pair |-> rows[k], count |-> CountOf(pairs, rows[k])]]

\* argmax(counts): the first index holding the largest count
argmax(u) ==
    CHOOSE k \in 1..Len(u) :
        /\ \A j \in 1..Len(u) : u[j].count <= u[k].count
        /\ \A j \in 1..(k - 1) : u[j].count < u[k].count

\* mask = all(pairs == pair, axis=1); mask = append(mask, False);
\* ids[mask] = idx; ids = ids[~roll(mask, 1)]
mask_merge(ids, pair, idx) ==
    LET n == Len(ids)
        mask == [j \in 1..n |-> j < n /\ ids[j] = pair[1] /\ ids[j + 1] = pair[2]]
        set == [j \in 1..n |-> IF mask[j] THEN idx ELSE ids[j]]
        rolled == [j \in 1..n |-> IF j = 1 THEN mask[n] ELSE mask[j - 1]]
        kept == SelectSeq([j \in 1..n |-> j], LAMBDA j : ~rolled[j])
    IN  [k \in 1..Len(kept) |-> set[kept[k]]]

\* ------------------------------------------------------ training pieces
\* vocab = {idx: bytes([idx]) for idx in range(256)}
seed_vocab == [idx \in 0..(NumBytes - 1) |-> <<idx>>]

\* mutant: every merge gets the first id
mint_const(k) == NumBytes

\* idx = 256 + i
mint(k) == NumBytes + k

\* mutant: the two sides concatenated in the wrong order
vocab_entry_swapped(v, p) == v[p[2]] \o v[p[1]]

\* mutant: the right side dropped
vocab_entry_left(v, p) == v[p[1]]

\* vocab[pair[0]] + vocab[pair[1]]
vocab_entry(v, p) == v[p[1]] \o v[p[2]]

\* {tuple(pair): j + 256 for j, pair in enumerate(merge_pairs)}
merges_of(mp) ==
    [p \in {mp[j] : j \in 1..Len(mp)} |->
        LET last == CHOOSE j \in 1..Len(mp) :
                        mp[j] = p /\ \A k \in (j + 1)..Len(mp) : mp[k] # p
        IN  mint(last - 1)]

\* the vocabulary loop that closes train_gpu, from iteration k on
RECURSIVE vocab_of(_, _, _)
vocab_of(v, mp, k) ==
    IF k >= Len(mp) THEN v
    ELSE vocab_of(DictSet(v, mint(k), vocab_entry(v, mp[k + 1])), mp, k + 1)

\* ------------------------------------------------------ state
VARIABLES
    text,         \* the training text (code points)
    vocab_size,   \* the vocab_size handed to every training call
    pc,           \* per strategy: "start", "loop", "done", or the exception
    i,            \* per strategy: loop counter
    ids,          \* per strategy: current token sequence
    pair,         \* per strategy: pair chosen by the last iteration
    merges,       \* per strategy: the merge table
    vocab,        \* per strategy: the vocabulary
    merge_pairs,  \* train_gpu: the tensor of chosen pairs
    enc_pc,       \* encode/decode call: "idle", "loop", "encoded", "decoded"
    enc_tok,      \* the tokenizer (strategy that trained it) used
    enc_text,     \* the text handed to encode
    enc_ids,      \* ids inside encode
    dec_text      \* result of decode(encode(enc_text))

trainVars == <<text, vocab_size, pc, i, ids, pair, merges, vocab, merge_pairs>>
encVars == <<enc_pc, enc_tok, enc_text, enc_ids, dec_text>>
vars == <<text, vocab_size, pc, i, ids, pair, merges, vocab, merge_pairs,
          enc_pc, enc_tok, enc_text, enc_ids, dec_text>>

num_merges == vocab_size - NumBytes

Terminated(st) == pc[st] \in {"done", "raised", "AssertionError"}

Init ==
    /\ text \in Texts(MaxLen)
    /\ vocab_size \in (NumBytes - 1)..(NumBytes + MaxMerges)
    /\ pc = [st \in Strategies |-> "start"]
    /\ i = [st \in Strategies |-> 0]
    /\ ids = [st \in Strategies |-> None]
    /\ pair = [st \in Strategies |-> None]
    /\ merges = [st \in Strategies |-> None]
    /\ vocab = [st \in Strategies |-> None]
    /\ merge_pairs = None
    /\ enc_pc = "idle"
    /\ enc_tok = None
    /\ enc_text = None
    /\ enc_ids = None
    /\ dec_text = None

\* ------------------------------------------------------ training
\* entry of a training call up to the loop: the assert, the byte list and
\* the initial tables
TrainEnter(st) ==
    /\ pc[st] = "start"
    /\ UNCHANGED <<text, vocab_size, i, pair>>
    /\ UNCHANGED encVars
    /\ IF vocab_size < NumBytes
       THEN /\ pc' = [pc EXCEPT ![st] = "AssertionError"]
            /\ UNCHANGED <<ids, merges, vocab, merge_pairs>>
       ELSE /\ pc' = [pc EXCEPT ![st] = "loop"]
            /\ ids' = [ids EXCEPT ![st] = utf8_encode(text)]
            /\ IF st = "train_gpu"
               THEN /\ merge_pairs' = [k \in 1..num_merges |-> <<0, 0>>]
                    /\ UNCHANGED <<merges, vocab>>
               ELSE /\ merges' = [merges EXCEPT ![st] = <<>>]
                    /\ vocab' = [vocab EXCEPT ![st] = seed_vocab]
                    /\ UNCHANGED merge_pairs

\* one iteration of the loop of train
TrainIter ==
    LET st == "train"
        stats == get_stats(ids[st])
    IN  /\ pc[st] = "loop"
        /\ i[st] < num_merges
        /\ UNCHANGED <<text, vocab_size, merge_pairs>>
        /\ UNCHANGED encVars
        /\ IF stats = <<>>
           THEN \* max() of an empty dict raises ValueError
                /\ pc' = [pc EXCEPT ![st] = "raised"]
                /\ UNCHANGED <<i, ids, pair, merges, vocab>>
           ELSE LET p == py_max_count(stats)
                    idx == mint(i[st])
                IN  /\ pair' = [pair EXCEPT ![st] = p]
                    /\ ids' = [ids EXCEPT ![st] = merge(ids[st], p, idx)]
                    /\ merges' = [merges EXCEPT ![st] = DictSet(merges[st], p, idx)]
                    /\ vocab' = [vocab EXCEPT ![st] =
                                    DictSet(vocab[st], idx, vocab_entry(vocab[st], p))]
                    /\ i' = [i EXCEPT ![st] = i[st] + 1]
                    /\ UNCHANGED pc

\* one iteration of the loop of train_vectorized
TrainVectorizedIter ==
    LET st == "train_vectorized"
        pairs == AdjPairs(ids[st])
        u == unique(pairs)
    IN  /\ pc[st] = "loop"
        /\ i[st] < num_merges
        /\ UNCHANGED <<text, vocab_size, merge_pairs>>
        /\ UNCHANGED encVars
        /\ IF u = <<>>
           THEN \* argmax of an empty array raises ValueError
                /\ pc' = [pc EXCEPT ![st] = "raised"]
                /\ UNCHANGED <<i, ids, pair, merges, vocab>>
           ELSE LET p == u[argmax(u)].pair
                    idx == mint(i[st])
                IN  /\ pair' = [pair EXCEPT ![st] = p]
                    /\ ids' = [ids EXCEPT ![st] = mask_merge(ids[st], p, idx)]
                    /\ merges' = [merges EXCEPT ![st] = DictSet(merges[st], p, idx)]
                    /\ vocab' = [vocab EXCEPT ![st] =
                                    DictSet(vocab[st], idx, vocab_entry(vocab[st], p))]
                    /\ i' = [i EXCEPT ![st] = i[st] + 1]
                    /\ UNCHANGED pc

\* one iteration of the first loop of train_gpu
TrainGpuIter ==
    LET st == "train_gpu"
        pairs == AdjPairs(ids[st])
        u == unique(pairs)
    IN  /\ pc[st] = "loop"
        /\ i[st] < num_merges
        /\ UNCHANGED <<text, vocab_size, merges, vocab>>
        /\ UNCHANGED encVars
        /\ IF u = <<>>
           THEN \* argmax of an empty tensor raises
                /\ pc' = [pc EXCEPT ![st] = "raised"]
                /\ UNCHANGED <<i, ids, pair, merge_pairs>>
           ELSE LET p == u[argmax(u)].pair
                IN  /\ pair' = [pair EXCEPT ![st] = p]
                    /\ ids' = [ids EXCEPT ![st] = mask_merge(ids[st], p, mint(i[st]))]
                    /\ merge_pairs' = [merge_pairs EXCEPT ![i[st] + 1] = p]
                    /\ i' = [i EXCEPT ![st] = i[st] + 1]
                    /\ UNCHANGED pc

\* the loop is exhausted: the tables are stored in self.merges, self.vocab
\* (train_gpu builds them from merge_pairs first)
TrainReturn(st) ==
    /\ pc[st] = "loop"
    /\ i[st] = num_merges
    /\ pc' = [pc EXCEPT ![st] = "done"]
    /\ UNCHANGED <<text, vocab_size, i, ids, pair, merge_pairs>>
    /\ UNCHANGED encVars
    /\ IF st = "train_gpu"
       THEN /\ merges' = [merges EXCEPT ![st] = merges_of(merge_pairs)]
            /\ vocab' = [vocab EXCEPT ![st] = vocab_of(seed_vocab, merge_pairs, 0)]
       ELSE UNCHANGED <<merges, vocab>>

\* ------------------------------------------------------ encode / decode
\* mutant: the largest merge index wins
KeyLess_max(m, p, q) == p \in DOMAIN m /\ (q \notin DOMAIN m \/ m[p] > m[q])

\* key(p) < key(q) for key = lambda p: self.merges.get(p, float("inf"))
KeyLess(m, p, q) == p \in DOMAIN m /\ (q \notin DOMAIN m \/ m[p] < m[q])

\* min(stats, key=...): the first item in iteration order with the least key
py_min_key(stats, m) ==
    LET best == CHOOSE k \in 1..Len(stats) :
                    /\ \A j \in 1..Len(stats) : ~KeyLess(m, stats[j].pair, stats[k].pair)
                    /\ \A j \in 1..(k - 1) : KeyLess(m, stats[k].pair, stats[j].pair)
    IN  stats[best].pair

\* mutant: the result of merge is not assigned back to ids
encode_round_unassigned(cur, m) ==
    IF Len(cur) < 2 THEN [ret |-> TRUE, ids |-> cur]
    ELSE LET p == py_min_key(get_stats(cur), m)
         IN  IF p \notin DOMAIN m
             THEN [ret |-> TRUE, ids |-> cur]
             ELSE [ret |-> FALSE, ids |-> cur]

\* one pass through the while loop of encode: ret tells that the loop is
\* left (condition false, or break), ids is the sequence after the pass
encode_round(cur, m) ==
    IF Len(cur) < 2 THEN [ret |-> TRUE, ids |-> cur]
    ELSE LET p == py_min_key(get_stats(cur), m)
         IN  IF p \notin DOMAIN m
             THEN [ret |-> TRUE, ids |-> cur]
             ELSE [ret |-> FALSE, ids |-> merge(cur, p, m[p])]

\* b"".join(self.vocab[idx] for idx in ids)
join_vocab(cur, v) == Concat([k \in 1..Len(cur) |-> v[cur[k]]])

\* decode, for ids that are all in the vocabulary
decode(cur, v) == utf8_decode(join_vocab(cur, v))

\* encode(s) is called on a trained tokenizer, once the training calls are over
EncodeEnter(tok, s) ==
    /\ enc_pc = "idle"
    /\ \A st \in Strategies : Terminated(st)
    /\ pc[tok] = "done"
    /\ enc_pc' = "loop"
    /\ enc_tok' = tok
    /\ enc_text' = s
    /\ enc_ids' = utf8_encode(s)
    /\ UNCHANGED dec_text
    /\ UNCHANGED trainVars

EncodeRound ==
    /\ enc_pc = "loop"
    /\ LET r == encode_round(enc_ids, merges[enc_tok])
       IN  /\ enc_ids' = r.ids
           /\ enc_pc' = IF r.ret THEN "encoded" ELSE "loop"
    /\ UNCHANGED <<enc_tok, enc_text, dec_text>>
    /\ UNCHANGED trainVars

\* decode is called on what encode returned
Decode ==
    /\ enc_pc = "encoded"
    /\ IF \E k \in 1..Len(enc_ids) : enc_ids[k] \notin DOMAIN vocab[enc_tok]
       THEN /\ enc_pc' = "KeyError"
            /\ UNCHANGED dec_text
       ELSE /\ enc_pc' = "decoded"
            /\ dec_text' = decode(enc_ids, vocab[enc_tok])
    /\ UNCHANGED <<enc_tok, enc_text, enc_ids>>
    /\ UNCHANGED trainVars

\* ------------------------------------------------------ specification
Next ==
    \/ \E st \in Strategies : TrainEnter(st)
    \/ TrainIter
    \/ TrainVectorizedIter
    \/ TrainGpuIter
    \/ \E st \in Strategies : TrainReturn(st)
    \/ \E tok \in Strategies, s \in Texts(MaxEncLen) : EncodeEnter(tok, s)
    \/ EncodeRound
    \/ Decode

Spec == Init /\ [][Next]_vars

\* encode is a plain loop: once entered it keeps running
LiveSpec == Spec /\ WF_encVars(EncodeRound)

\* ------------------------------------------------------ properties
Bytes(t) == utf8_encode(t)

\* a training iteration of strategy st has just run
Iterated(st) == i'[st] = i[st] + 1

\* C1: round trip -- on a tokenizer whose training completed,
\* decode(encode(s)) is s for every text s.
C1_RoundTrip == enc_pc = "decoded" => dec_text = enc_text

\* C1 witness: a text with a two-byte character was encoded with at least
\* one merge applied, and decoded.
C1_Witness ==
    /\ enc_pc = "decoded"
    /\ \E k \in 1..Len(enc_text) : enc_text[k] >= 128
    /\ Len(enc_ids) < Len(Bytes(enc_text))

\* C2: saturation -- when the pair statistics are empty before num_merges
\* iterations have run, training stops without an error: no training call
\* with vocab_size >= 256 ever ends in an exception.
C2_Saturation == \A st \in Strategies : pc[st] # "raised"

\* the pairs of cur with the largest count
MaxPairs(cur) ==
    LET ps == AdjPairs(cur)
        S == {ps[j] : j \in 1..Len(ps)}
    IN  {p \in S : \A q \in S : CountOf(ps, q) <= CountOf(ps, p)}

\* C3: in every training iteration the chosen pair has the maximum count
\* and is the lexicographically smallest of the pairs with that count.
C3_TieBreak ==
    [][\A st \in Strategies :
          Iterated(st) =>
              /\ pair'[st] \in MaxPairs(ids[st])
              /\ \A q \in MaxPairs(ids[st]) \ {pair'[st]} : PairLess(pair'[st], q)]_vars

\* C4: the three strategies produce identical MergeTable and Vocabulary on
\* the same text and vocab_size.
C4_StrategyEquivalence ==
    \A a, b \in Strategies :
        (pc[a] = "done" /\ pc[b] = "done") =>
            (merges[a] = merges[b] /\ vocab[a] = vocab[b])

\* C5: the merge application of every strategy yields what the single
\* left-to-right greedy non-overlapping scan yields.
C5_NoOverlap ==
    [][\A st \in Strategies :
          Iterated(st) =>
              ids'[st] = merge(ids[st], pair'[st], NumBytes + i[st])]_vars

\* the pairs strategy st has merged so far
Chosen(st) ==
    IF st = "train_gpu"
    THEN IF pc[st] = "loop" THEN {merge_pairs[j] : j \in 1..i[st]} ELSE {}
    ELSE DOMAIN merges[st]

\* C6: a training run that performed k merges has a MergeTable of k distinct
\* pairs whose ids are exactly 256..256+k-1; merge i gets id 256+i and no
\* pair is selected twice.
C6_Done ==
    \A st \in Strategies :
        pc[st] = "done" =>
            /\ Cardinality(DOMAIN merges[st]) = i[st]
            /\ {merges[st][p] : p \in DOMAIN merges[st]}
                   = NumBytes..(NumBytes + i[st] - 1)

C6_Step ==
    \A st \in Strategies :
        /\ Iterated(st) =>
              /\ pair'[st] \notin Chosen(st)
              /\ st # "train_gpu" => merges'[st][pair'[st]] = NumBytes + i[st]
        /\ (st = "train_gpu" /\ pc[st] = "loop" /\ pc'[st] = "done") =>
              \A j \in 1..i[st] : merges'[st][merge_pairs[j]] = NumBytes + j - 1

C6_MergeIds == [](C6_Done) /\ [][C6_Step]_vars

\* C6 witness: all three training runs completed with at least two merges.
C6_Witness == \A st \in Strategies : pc[st] = "done" /\ i[st] >= 2

\* C7: after training the vocabulary has 256 + (merges performed) entries,
\* vocab[id] = [id] below 256, vocab[id] = vocab[L] ++ vocab[R] for every
\* merge (L,R) -> id, and no entry is ever overwritten.
C7_Done ==
    \A st \in Strategies :
        pc[st] = "done" =>
            /\ Cardinality(DOMAIN vocab[st]) = NumBytes + i[st]
            /\ \A id \in 0..(NumBytes - 1) : vocab[st][id] = <<id>>
            /\ \A p \in DOMAIN merges[st] :
                   vocab[st][merges[st][p]] = vocab[st][p[1]] \o vocab[st][p[2]]

C7_Step ==
    \A st \in Strategies : \A id \in DOMAIN vocab[st] :
        id \in DOMAIN vocab'[st] /\ vocab'[st][id] = vocab[st][id]

C7_Vocabulary == [](C7_Done) /\ [][C7_Step]_vars

\* C7 witness: the sequential and the batch-parallel run completed with a
\* merge whose two sides expand to different bytes.
C7_Witness ==
    \A st \in {"train", "train_gpu"} :
        /\ pc[st] = "done"
        /\ \E p \in DOMAIN merges[st] : vocab[st][p[1]] # vocab[st][p[2]]

\* the adjacent pairs of cur that are keys of the merge table m
Mergeable(cur, m) ==
    {p \in {AdjPairs(cur)[j] : j \in 1..(Len(cur) - 1)} : p \in DOMAIN m}

\* C8: each round of encode applies the present pair with the smallest
\* assigned id; encode stops exactly when no present pair is a key of the
\* MergeTable, so what it returns has no mergeable adjacent pair.
C8_Step ==
    enc_pc = "loop" =>
        LET m == merges[enc_tok]
            cand == Mergeable(enc_ids, m)
        IN  IF cand = {}
            THEN enc_pc' = "encoded" /\ enc_ids' = enc_ids
            ELSE LET best == CHOOSE p \in cand : \A q \in cand : m[p] <= m[q]
                 IN  enc_pc' = "loop" /\ enc_ids' = merge(enc_ids, best, m[best])

C8_Returned ==
    enc_pc \in {"encoded", "decoded"} => Mergeable(enc_ids, merges[enc_tok]) = {}

C8_EncoderPriority == [](C8_Returned) /\ [][C8_Step]_vars

\* C8 witness: encode is in a round where two different mergeable pairs
\* are present.
C8_Witness ==
    /\ enc_pc = "loop"
    /\ Cardinality(Mergeable(enc_ids, merges[enc_tok])) >= 2

\* C9: encode terminates (it is never in its loop forever), and every round
\* that applies a merge leaves a strictly shorter sequence of at least one
\* token.
C9_Step ==
    (enc_pc = "loop" /\ enc_pc' = "loop") =>
        (Len(enc_ids') < Len(enc_ids) /\ Len(enc_ids') >= 1)

C9_Termination ==
    /\ []<>(enc_pc # "loop")
    /\ [][C9_Step]_vars

\* C9 witness: encode returned after at least two merges were applied.
C9_Witness ==
    /\ enc_pc = "encoded"
    /\ Len(enc_ids) + 2 <= Len(Bytes(enc_text))

\* C10: in every strategy, after every merge iteration, the vocabulary
\* expansions of the current ids concatenate to the bytes of the text.
C10_BytePreservation ==
    \A st \in Strategies :
        (pc[st] \in {"loop", "done"} /\ vocab[st] # None) =>
            join_vocab(ids[st], vocab[st]) = Bytes(text)

====
